---- MODULE Spec2Model ----
(***************************************************************************)
(* A model of the AIMI app builder: the tRPC project procedures            *)
(* (src/modules/projects/server/procedures.ts, src/trpc/init.ts) and the   *)
(* background code-agent job (src/inngest/functions.ts, inngest/utils).    *)
(*                                                                         *)
(* Text is a sequence of atoms (groups of characters), so that joining,    *)
(* truthiness and substring search are computed and not assumed.           *)
(***************************************************************************)
EXTENDS Integers, Sequences, FiniteSets, TLC

----------------------------------------------------------------------------
(* Bounds of the model *)

\* Number of code-agent/run events delivered to the job runner
MaxEvents == 2

\* Number of tRPC calls made to the projects router
MaxCalls == 3

----------------------------------------------------------------------------
(* Text *)

\* The completion marker "<task_summary>", as two atoms: it can straddle two
\* parts of an array content
Marker == <<"<task_", "summary>">>

EmptyText == <<>>

\* JavaScript truthiness of a string: non-empty
Truthy(s) == s /= EmptyText

\* String.prototype.includes
Includes(s, sub) ==
  \E i \in 0..(Len(s) - Len(sub)) : SubSeq(s, i + 1, i + Len(sub)) = sub

RECURSIVE Join(_)
\* Array.prototype.join(""): the concatenation of a sequence of texts
Join(parts) ==
  IF parts = <<>> THEN EmptyText ELSE Head(parts) \o Join(Tail(parts))

\* String(obj) of a plain object, what join does to a non-string element
ObjectString == <<"[object Object]">>

\* string | undefined
Undefined == [def |-> FALSE, val |-> EmptyText]
Some(t) == [def |-> TRUE, val |-> t]

\* a returned value or a thrown error
Throw == [threw |-> TRUE, val |-> EmptyText]
Ret(t) == [threw |-> FALSE, val |-> t]

----------------------------------------------------------------------------
(* Agent messages (agent-kit Message): a text message holds a string or an *)
(* array of TextContent; a tool_call message holds tools and no content.   *)

TextMsg(role, str) ==
  [type |-> "text", role |-> role, hasContent |-> TRUE, isArray |-> FALSE,
   parts |-> <<str>>, tools |-> <<>>]

TextArrayMsg(role, parts) ==
  [type |-> "text", role |-> role, hasContent |-> TRUE, isArray |-> TRUE,
   parts |-> parts, tools |-> <<>>]

ToolCallMsg(tools) ==
  [type |-> "tool_call", role |-> "assistant", hasContent |-> FALSE,
   isArray |-> FALSE, parts |-> <<>>, tools |-> tools]

\* message.content as a string (hasContent and not isArray)
ContentString(m) == m.parts[1]

\* JavaScript truthiness of message.content: undefined and "" are falsy, every
\* array (the empty one too) is truthy
ContentTruthy(m) ==
  m.hasContent /\ (m.isArray \/ Truthy(ContentString(m)))

\* Array.prototype.findLastIndex (1-based; 0 when there is none)
FindLastIndexAssistant(output) ==
  LET hits == {i \in 1..Len(output) : output[i].role = "assistant"}
  IN  IF hits = {} THEN 0 ELSE CHOOSE i \in hits : \A j \in hits : j <= i

\* utils: the text of the last message with role assistant, or undefined
lastAgentTextMessageContent(output) ==
  LET idx == FindLastIndexAssistant(output)
  IN  IF idx = 0 THEN Undefined
      ELSE IF ~ContentTruthy(output[idx]) THEN Undefined
      ELSE IF ~output[idx].isArray THEN Some(ContentString(output[idx]))
      ELSE Some(Join(output[idx].parts))

\* utils: value[0] of an empty array is undefined and reading its type throws;
\* an array content is joined after map((txt) => txt), which leaves the
\* TextContent objects as they are
parseAgentOutput(value) ==
  IF Len(value) = 0 THEN Throw
  ELSE IF value[1].type /= "text" THEN Ret(<<"Fragment">>)
  ELSE IF value[1].isArray
       THEN Ret(Join([i \in 1..Len(value[1].parts) |-> ObjectString]))
  ELSE Ret(ContentString(value[1]))

----------------------------------------------------------------------------
(* Values of the job *)

\* maxIter of the coding-agent network
maxIter == 15

\* take: 5 of get-previous-messages
HistoryTake == 5

\* the port of the Next.js dev server in the sandbox
PreviewPort == 3000

Users == {"u1", "u2"}

Paths == {"app/page.tsx", "app/layout.tsx"}
Contents == {"v1", "v2"}
\* no entry for a path
NoFile == "<none>"
EmptyFiles == [p \in Paths |-> NoFile]
\* Object.keys(files)
ObjectKeys(f) == {p \in Paths : f[p] /= NoFile}

File(path, content) == [path |-> path, content |-> content]

\* Tool calls the model can ask for
Terminal(command) ==
  [name |-> "terminal", command |-> command, files |-> <<>>, paths |-> <<>>]
CreateOrUpdate(fs) ==
  [name |-> "createOrUpdateFiles", command |-> "", files |-> fs, paths |-> <<>>]
ReadFilesCall(ps) ==
  [name |-> "readFiles", command |-> "", files |-> <<>>, paths |-> ps]

ToolCalls ==
  { Terminal("npm install"),
    CreateOrUpdate(<<File("app/page.tsx", "v1")>>),
    CreateOrUpdate(<<File("app/page.tsx", "v2"), File("app/layout.tsx", "v1")>>),
    ReadFilesCall(<<"app/page.tsx", "app/layout.tsx">>) }

PlainText == <<"Working on it">>
SummaryText == Marker \o <<"Built the page">>

\* Outputs of one inference of the coding agent, in the shape the model
\* adapter gives them: an optional text message, then an optional tool_call
AgentOutputs ==
  { <<>>,
    <<TextMsg("assistant", PlainText)>>,
    <<TextMsg("assistant", SummaryText)>>,
    <<TextArrayMsg("assistant", <<<<"<task_">>, <<"summary>">>>>)>> }
  \cup { <<ToolCallMsg(<<t>>)>> : t \in ToolCalls }
  \cup { <<TextMsg("assistant", SummaryText), ToolCallMsg(<<Terminal("npm install")>>)>> }

\* Outputs of the title and response agents
AuxOutputs ==
  { <<>>,
    <<TextMsg("assistant", <<"A page">>)>>,
    <<ToolCallMsg(<<Terminal("npm install")>>)>> }

NoEvent == [projectId |-> 0, value |-> EmptyText]
NoUrl == [scheme |-> "", port |-> 0, sandboxId |-> 0]
ErrorContent == <<"Something went wrong. Please try again.">>

PromptOf(i) == <<ToString(i)>>
UserOf(i) == IF i % 2 = 1 THEN "u1" ELSE "u2"

----------------------------------------------------------------------------
VARIABLES
  projects,             \* table Project, in creation order
  messages,             \* table Message, in createdAt order
  events,               \* code-agent/run events sent and not yet picked up
  sandboxes,            \* the sandboxes of the provider, by sandbox id
  pc,                   \* the step the job run is at ("idle": no run)
  event,                \* the event of the run
  retried,              \* the step at pc has thrown and is being retried
  sandboxId,            \* result of get-sandbox-id
  previousMessages,     \* result of get-previous-messages
  summary,              \* network.state.data.summary
  files,                \* network.state.data.files
  agentCalls,           \* the network's counter of agent invocations
  routed,               \* what the router returned at the last routing decision
  result,               \* output of the agent's last inference (result.output)
  pending,              \* tool calls of that output still to run
  toolResult,           \* what the last tool call's step returned
  fragmentTitleOutput,  \* output of fragment-title-generator
  responseOutput,       \* output of response-generator
  isError,              \* the isError flag of the function body
  sandboxUrl,           \* result of get-sandbox-url
  calls,                \* the tRPC calls made, each with its position and result
  usage,                \* table Usage: the points each user has consumed
  plan,                 \* the plan of each user ("free" or "pro")
  requests              \* the HTTP requests the middleware has handled

runVars == <<pc, event, retried, sandboxId, previousMessages, summary, files,
           agentCalls, routed, result, pending, toolResult,
           fragmentTitleOutput, responseOutput, isError, sandboxUrl>>
apiVars == <<calls, usage, plan, requests>>
vars == <<projects, messages, events, sandboxes, pc, event, retried, sandboxId,
        previousMessages, summary, files, agentCalls, routed, result,
        pending, toolResult, fragmentTitleOutput, responseOutput, isError,
        sandboxUrl, calls, usage, plan, requests>>

----------------------------------------------------------------------------
(* Helpers of the job *)

Reverse(s) == [i \in 1..Len(s) |-> s[Len(s) + 1 - i]]

Min(a, b) == IF a <= b THEN a ELSE b

\* A Message row written by the job
ErrorMessage(projectId) ==
  [projectId |-> projectId, content |-> ErrorContent, role |-> "ASSISTANT",
   type |-> "ERROR", fragment |-> {}]

ResultMessage(projectId, content, url, title, fs) ==
  [projectId |-> projectId, content |-> content, role |-> "ASSISTANT",
   type |-> "RESULT",
   fragment |-> {[sandboxUrl |-> url, title |-> title, files |-> fs]}]

\* The row projects.create writes with the project
UserMessage(projectId, content) ==
  [projectId |-> projectId, content |-> content, role |-> "USER",
   type |-> "RESULT", fragment |-> {}]

\* the timeout the code sets on a sandbox, and that of a sandbox on which time
\* has passed since it was set
SANDBOX_TIMEOUT == "SANDBOX_TIMEOUT"
Elapsed == "elapsed"

\* A sandbox: the content last written to each path through files.write, the
\* project of the run that created it, and its timeout (get-sandbox-id sets
\* it right after Sandbox.create)
NewSandbox(projectId) ==
  [written |-> EmptyFiles, forProject |-> projectId, timeout |-> SANDBOX_TIMEOUT]

getSandbox_NoTimeout(sandbox) == sandbox

\* utils getSandbox: Sandbox.connect, then setTimeout(SANDBOX_TIMEOUT); the
\* sandbox as it is when the function returns it
getSandbox(sandbox) == [sandbox EXCEPT !.timeout = SANDBOX_TIMEOUT]

\* What a tool's step returned: the tool, whether it is what the catch
\* returned, and the string returned (<<>> for an object or nothing)
NoToolResult == [tool |-> "", error |-> FALSE, value |-> <<>>]
ToolResult(tool, error, value) ==
  [tool |-> tool, error |-> error, value |-> value]

\* what a command writes to stdout, chunk by chunk, and what it may have
\* written to stderr when it fails
Stdout == <<"added 1 package", " in 2s">>
Stderrs == {<<>>, <<"npm ERR!">>}

\* String(error) of what is caught
ConnectError == "Error: sandbox not found"
CommandError == "CommandExitError: exit status 1"
FileError == "Error: file operation failed"

TerminalReturn_DropsBuffers(failed, error, stdout, stderr) ==
  IF failed THEN <<"Command failed ", error>> ELSE stdout

\* terminal: result.stdout, or what the catch returns from the error and the
\* buffers filled so far
TerminalReturn(failed, error, stdout, stderr) ==
  IF failed
  THEN <<"Command failed ", error, "\nstdout: ">> \o stdout
       \o <<"\nstderr: ">> \o stderr
  ELSE stdout

\* sandbox.files.read: the content last written, or that of the template
FileContent(sandbox, path) ==
  IF sandbox.written[path] /= NoFile THEN sandbox.written[path] ELSE "template"

\* "Error: " + error
ErrorString(error) == <<"Error: ", error>>

\* sandbox.getHost(port) and the URL get-sandbox-url builds from it
getHost(id, port) == [port |-> port, sandboxId |-> id]
HttpsUrl(host) ==
  [scheme |-> "https", port |-> host.port, sandboxId |-> host.sandboxId]

RECURSIVE ApplyWrites(_, _, _)
\* the object after obj[file.path] = file.content for the first k files of fs
ApplyWrites(obj, fs, k) ==
  IF k = 0 THEN obj
  ELSE [ApplyWrites(obj, fs, k - 1) EXCEPT ![fs[k].path] = fs[k].content]

RECURSIVE Flatten(_)
Flatten(ss) == IF ss = <<>> THEN <<>> ELSE Head(ss) \o Flatten(Tail(ss))

\* JSON.stringify of the {path, content} objects of the first k paths
JSONStringify(sandbox, paths, k) ==
  <<"[">>
  \o Flatten([i \in 1..k |->
        <<"{\"path\":", paths[i], ",\"content\":",
          FileContent(sandbox, paths[i]), "}">>])
  \o <<"]">>

ReadFilesReturn_Partial(sandbox, paths, k) == JSONStringify(sandbox, paths, k)

\* readFiles, of which the first k reads succeeded: the JSON of all contents,
\* or what the catch returns
ReadFilesReturn(sandbox, paths, k) ==
  IF k = Len(paths) THEN JSONStringify(sandbox, paths, k)
  ELSE ErrorString(FileError)

\* the tool calls of an output, in order
ToolsOf(output) == Flatten([i \in 1..Len(output) |-> output[i].tools])

\* the steps whose callback or model call can throw and be retried by the runner
ThrowingSteps ==
  {"get-sandbox-id", "get-previous-messages", "code-agent",
   "fragment-title-generator", "response-generator", "get-sandbox-url",
   "save-result"}

----------------------------------------------------------------------------
(* The code-agent job: one action per step of codeAgentFunction *)

router_SelectsOnSummary(s) == IF Truthy(s) THEN "code-agent" ELSE "none"

\* router: no agent once there is a summary, the coding agent otherwise
router(s) == IF Truthy(s) THEN "none" ELSE "code-agent"

onResponse_AnyText(output, s) ==
  LET lastAgentTextMessageText == lastAgentTextMessageContent(output)
  IN  IF lastAgentTextMessageText.def /\ Truthy(lastAgentTextMessageText.val)
      THEN lastAgentTextMessageText.val
      ELSE s

\* lifecycle.onResponse: the new value of state.data.summary
onResponse(output, s) ==
  LET lastAgentTextMessageText == lastAgentTextMessageContent(output)
  IN  IF lastAgentTextMessageText.def /\ Truthy(lastAgentTextMessageText.val)
         /\ Includes(lastAgentTextMessageText.val, Marker)
      THEN lastAgentTextMessageText.val
      ELSE s

isErrorOf_SummaryOnly(s, f) == ~Truthy(s)

\* isError: no summary or no file
isErrorOf(s, f) == ~Truthy(s) \/ Cardinality(ObjectKeys(f)) = 0

\* the runner picks up an event and starts the function body
StartRun ==
  /\ pc = "idle"
  /\ events /= <<>>
  /\ event' = Head(events)
  /\ events' = Tail(events)
  /\ pc' = "get-sandbox-id"
  /\ UNCHANGED apiVars
  /\ UNCHANGED <<projects, messages, sandboxes, retried, sandboxId,
                 previousMessages, summary, files, agentCalls, routed,
                 result, pending, toolResult, fragmentTitleOutput,
                 responseOutput, isError, sandboxUrl>>
\* a step throws; the runner will run it again
StepThrows ==
  /\ pc \in ThrowingSteps
  /\ retried' = TRUE
  /\ UNCHANGED apiVars
  /\ UNCHANGED <<projects, messages, events, sandboxes, pc, event, sandboxId,
                 previousMessages, summary, files, agentCalls, routed,
                 result, pending, toolResult, fragmentTitleOutput,
                 responseOutput, isError, sandboxUrl>>
\* step get-sandbox-id: Sandbox.create and its id
GetSandboxId ==
  /\ pc = "get-sandbox-id"
  /\ sandboxes' = Append(sandboxes, NewSandbox(event.projectId))
  /\ sandboxId' = Len(sandboxes) + 1
  /\ pc' = "get-previous-messages"
  /\ retried' = FALSE
  /\ UNCHANGED apiVars
  /\ UNCHANGED <<projects, messages, events, event, previousMessages,
                 summary, files, agentCalls, routed, result, pending,
                 toolResult, fragmentTitleOutput, responseOutput, isError,
                 sandboxUrl>>
PreviousMessagesOf_NoReverse(projectId) ==
  LET mine == SelectSeq(messages, LAMBDA m : m.projectId = projectId)
      desc == Reverse(mine)
      taken == SubSeq(desc, 1, Min(HistoryTake, Len(desc)))
  IN  [i \in 1..Len(taken) |->
         TextMsg(IF taken[i].role = "ASSISTANT" THEN "assistant" ELSE "user",
                 taken[i].content)]

\* findMany where projectId, orderBy createdAt desc, take 5; formatted; reversed
PreviousMessagesOf(projectId) ==
  LET mine == SelectSeq(messages, LAMBDA m : m.projectId = projectId)
      desc == Reverse(mine)
      taken == SubSeq(desc, 1, Min(HistoryTake, Len(desc)))
      formattedMessages ==
        [i \in 1..Len(taken) |->
           TextMsg(IF taken[i].role = "ASSISTANT" THEN "assistant" ELSE "user",
                   taken[i].content)]
  IN  Reverse(formattedMessages)

\* step get-previous-messages, then createState: summary "" and files {}
GetPreviousMessages ==
  /\ pc = "get-previous-messages"
  /\ previousMessages' = PreviousMessagesOf(event.projectId)
  /\ summary' = EmptyText
  /\ files' = EmptyFiles
  /\ agentCalls' = 0
  /\ pc' = "route"
  /\ retried' = FALSE
  /\ UNCHANGED apiVars
  /\ UNCHANGED <<projects, messages, events, sandboxes, event, sandboxId,
                 routed, result, pending, toolResult, fragmentTitleOutput,
                 responseOutput, isError, sandboxUrl>>
WithinMaxIter_OffByOne(n) == n <= maxIter

\* the loop of network.run goes on while its counter is below maxIter
WithinMaxIter(n) == n < maxIter

\* one routing decision of network.run: the router's agent is scheduled and,
\* while the counter allows, invoked; otherwise network.run returns
Route ==
  /\ pc = "route"
  /\ routed' = router(summary)
  /\ pc' = IF router(summary) = "code-agent" /\ WithinMaxIter(agentCalls)
           THEN "code-agent"
           ELSE "fragment-title-generator"
  /\ result' = <<>>
  /\ toolResult' = NoToolResult
  /\ UNCHANGED apiVars
  /\ UNCHANGED <<projects, messages, events, sandboxes, event, retried,
                 sandboxId, previousMessages, summary, files, agentCalls,
                 pending, fragmentTitleOutput, responseOutput, isError,
                 sandboxUrl>>
\* one invocation of the coding agent: the inference returns an output
CodeAgentInfer ==
  /\ pc = "code-agent"
  /\ \E output \in AgentOutputs : result' = output
  /\ agentCalls' = agentCalls + 1
  /\ pc' = "onResponse"
  /\ retried' = FALSE
  /\ UNCHANGED apiVars
  /\ UNCHANGED <<projects, messages, events, sandboxes, event, sandboxId,
                 previousMessages, summary, files, routed, pending,
                 toolResult, fragmentTitleOutput, responseOutput, isError,
                 sandboxUrl>>
AfterTool_SkipsToSave(rest) == IF rest = <<>> THEN "save-result" ELSE "tools"

\* where the run goes once onResponse or a tool call has returned
AfterTool(rest) == IF rest = <<>> THEN "route" ELSE "tools"

\* lifecycle.onResponse on that output; its tool calls are then invoked
OnResponse ==
  /\ pc = "onResponse"
  /\ summary' = onResponse(result, summary)
  /\ pending' = ToolsOf(result)
  /\ pc' = AfterTool(ToolsOf(result))
  /\ UNCHANGED apiVars
  /\ UNCHANGED <<projects, messages, events, sandboxes, event, retried,
                 sandboxId, previousMessages, files, agentCalls, routed,
                 result, toolResult, fragmentTitleOutput, responseOutput,
                 isError, sandboxUrl>>
\* tool terminal: the command's stdout, or the error caught and returned
TerminalTool ==
  /\ pc = "tools"
  /\ Head(pending).name = "terminal"
  /\ \E connected, failed \in BOOLEAN, j \in 0..Len(Stdout), stderr \in Stderrs :
       /\ ~connected => (failed /\ j = 0 /\ stderr = <<>>)
       /\ ~failed => (j = Len(Stdout) /\ stderr = <<>>)
       /\ sandboxes' = IF connected
                       THEN [sandboxes EXCEPT ![sandboxId] = getSandbox(@)]
                       ELSE sandboxes
       /\ toolResult' =
            ToolResult("terminal", failed,
              TerminalReturn(failed,
                             IF connected THEN CommandError ELSE ConnectError,
                             SubSeq(Stdout, 1, j), stderr))
  /\ pending' = Tail(pending)
  /\ pc' = AfterTool(Tail(pending))
  /\ UNCHANGED apiVars
  /\ UNCHANGED <<projects, messages, events, event, retried, sandboxId,
                 previousMessages, summary, files, agentCalls, routed,
                 result, fragmentTitleOutput, responseOutput, isError,
                 sandboxUrl>>
FilesAfterCall_Copy(before, fs, k) ==
  IF k = Len(fs) THEN ApplyWrites(before, fs, k) ELSE before

\* state.data.files after a createOrUpdateFiles call of which the first k
\* writes succeeded: updatedFiles is the state's own object, written entry by
\* entry after each sandbox write, and assigned back when the step returns it
FilesAfterCall(before, fs, k) ==
  LET updatedFiles == ApplyWrites(before, fs, k)
      newFilesIsObject == k = Len(fs)
  IN  IF newFilesIsObject THEN updatedFiles ELSE updatedFiles

\* tool createOrUpdateFiles: k writes succeed; k < Len(files) is a failed
\* connection (k = 0) or a failed write, caught and returned as "Error: ..."
CreateOrUpdateFilesTool ==
  /\ pc = "tools"
  /\ Head(pending).name = "createOrUpdateFiles"
  /\ \E connected \in BOOLEAN, k \in 0..Len(Head(pending).files) :
       /\ ~connected => k = 0
       /\ sandboxes' =
            IF connected
            THEN [sandboxes EXCEPT ![sandboxId] =
                    [getSandbox(@) EXCEPT !.written =
                       ApplyWrites(@, Head(pending).files, k)]]
            ELSE sandboxes
       /\ files' = FilesAfterCall(files, Head(pending).files, k)
       /\ toolResult' =
            ToolResult("createOrUpdateFiles", k < Len(Head(pending).files),
              IF k = Len(Head(pending).files) THEN <<>>
              ELSE ErrorString(IF connected THEN FileError ELSE ConnectError))
  /\ pending' = Tail(pending)
  /\ pc' = AfterTool(Tail(pending))
  /\ UNCHANGED apiVars
  /\ UNCHANGED <<projects, messages, events, event, retried, sandboxId,
                 previousMessages, summary, agentCalls, routed, result,
                 fragmentTitleOutput, responseOutput, isError, sandboxUrl>>
\* tool readFiles: the contents, or the error caught and returned
ReadFilesTool ==
  /\ pc = "tools"
  /\ Head(pending).name = "readFiles"
  /\ \E connected \in BOOLEAN, k \in 0..Len(Head(pending).paths) :
       /\ ~connected => k = 0
       /\ sandboxes' = IF connected
                       THEN [sandboxes EXCEPT ![sandboxId] = getSandbox(@)]
                       ELSE sandboxes
       /\ toolResult' =
            ToolResult("readFiles", k < Len(Head(pending).paths),
              IF connected
              THEN ReadFilesReturn(sandboxes[sandboxId], Head(pending).paths, k)
              ELSE ErrorString(ConnectError))
  /\ pending' = Tail(pending)
  /\ pc' = AfterTool(Tail(pending))
  /\ UNCHANGED apiVars
  /\ UNCHANGED <<projects, messages, events, event, retried, sandboxId,
                 previousMessages, summary, files, agentCalls, routed,
                 result, fragmentTitleOutput, responseOutput, isError,
                 sandboxUrl>>
\* fragmentTitleGenerator.run(summary), made whenever network.run has returned
RunFragmentTitleGenerator ==
  /\ pc = "fragment-title-generator"
  /\ \E output \in AuxOutputs : fragmentTitleOutput' = output
  /\ pc' = "response-generator"
  /\ retried' = FALSE
  /\ UNCHANGED apiVars
  /\ UNCHANGED <<projects, messages, events, sandboxes, event, sandboxId,
                 previousMessages, summary, files, agentCalls, routed,
                 result, pending, toolResult, responseOutput, isError,
                 sandboxUrl>>
\* responseGenerator.run(summary), then isError is computed
RunResponseGenerator ==
  /\ pc = "response-generator"
  /\ \E output \in AuxOutputs : responseOutput' = output
  /\ isError' = isErrorOf(summary, files)
  /\ pc' = "get-sandbox-url"
  /\ retried' = FALSE
  /\ UNCHANGED apiVars
  /\ UNCHANGED <<projects, messages, events, sandboxes, event, sandboxId,
                 previousMessages, summary, files, agentCalls, routed,
                 result, pending, toolResult, fragmentTitleOutput,
                 sandboxUrl>>
SandboxUrlOf_WrongPort(id) == HttpsUrl(getHost(id, PreviewPort + 1))

\* the callback of get-sandbox-url
SandboxUrlOf(id) == HttpsUrl(getHost(id, PreviewPort))

\* step get-sandbox-url
GetSandboxUrl ==
  /\ pc = "get-sandbox-url"
  /\ sandboxes' = [sandboxes EXCEPT ![sandboxId] = getSandbox(@)]
  /\ sandboxUrl' = SandboxUrlOf(sandboxId)
  /\ pc' = "save-result"
  /\ retried' = FALSE
  /\ UNCHANGED apiVars
  /\ UNCHANGED <<projects, messages, events, event, sandboxId,
                 previousMessages, summary, files, agentCalls, routed,
                 result, pending, toolResult, fragmentTitleOutput,
                 responseOutput, isError>>
\* whether the callback of save-result throws before it writes: the success
\* branch parses both outputs
SaveResultParseThrows ==
  /\ ~isError
  /\ \/ parseAgentOutput(responseOutput).threw
     \/ parseAgentOutput(fragmentTitleOutput).threw

\* the row the callback of save-result creates
SavedMessage ==
  IF isError
  THEN ErrorMessage(event.projectId)
  ELSE ResultMessage(event.projectId, parseAgentOutput(responseOutput).val,
                     sandboxUrl, parseAgentOutput(fragmentTitleOutput).val,
                     files)

\* step save-result
SaveResult ==
  /\ pc = "save-result"
  /\ ~SaveResultParseThrows
  /\ messages' = Append(messages, SavedMessage)
  /\ pc' = "done"
  /\ retried' = FALSE
  /\ UNCHANGED apiVars
  /\ UNCHANGED <<projects, events, sandboxes, event, sandboxId,
                 previousMessages, summary, files, agentCalls, routed,
                 result, pending, toolResult, fragmentTitleOutput,
                 responseOutput, isError, sandboxUrl>>
\* step save-result, an attempt that fails after its write: the row is created,
\* the attempt ends without its result reaching the runner (the connection or
\* the process is lost), and the runner will run the step again; once per step
SaveResultAttemptFails ==
  /\ pc = "save-result"
  /\ ~SaveResultParseThrows
  /\ ~retried
  /\ messages' = Append(messages, SavedMessage)
  /\ retried' = TRUE
  /\ UNCHANGED apiVars
  /\ UNCHANGED <<projects, events, sandboxes, pc, event, sandboxId,
                 previousMessages, summary, files, agentCalls, routed,
                 result, pending, toolResult, fragmentTitleOutput,
                 responseOutput, isError, sandboxUrl>>
\* time passes on the run's sandbox while a model call is awaited: its timeout
\* is no longer the full one
TimePasses ==
  /\ pc \in {"code-agent", "response-generator"}
  /\ sandboxes[sandboxId].timeout = SANDBOX_TIMEOUT
  /\ sandboxes' = [sandboxes EXCEPT ![sandboxId].timeout = Elapsed]
  /\ UNCHANGED apiVars
  /\ UNCHANGED <<projects, messages, events, pc, event, retried, sandboxId,
                 previousMessages, summary, files, agentCalls, routed,
                 result, pending, toolResult, fragmentTitleOutput,
                 responseOutput, isError, sandboxUrl>>
\* the function body returns; the run is over
ReturnResult ==
  /\ pc = "done"
  /\ pc' = "idle"
  /\ event' = NoEvent
  /\ sandboxId' = 0
  /\ previousMessages' = <<>>
  /\ summary' = EmptyText
  /\ files' = EmptyFiles
  /\ agentCalls' = 0
  /\ routed' = ""
  /\ fragmentTitleOutput' = <<>>
  /\ responseOutput' = <<>>
  /\ isError' = FALSE
  /\ sandboxUrl' = NoUrl
  /\ UNCHANGED apiVars
  /\ UNCHANGED <<projects, messages, events, sandboxes, retried, result,
                 pending, toolResult>>
----------------------------------------------------------------------------
(* The tRPC procedures of projectsRouter *)

\* lib/usage
FREE_POINTS == 5
PRO_POINTS == 100
GENERATION_COST == 1

\* the input schema of create: min(1), max(10000)
MinValueLength == 1
MaxValueLength == 10000

\* ctx.auth.userId of a request without a session
NoUser == ""

\* A prompt is a text of one-character atoms and of blocks of characters
BlockLength(a) ==
  IF a = "x^9999" THEN 9999 ELSE IF a = "x^10000" THEN 10000 ELSE 1

RECURSIVE StrLen(_)
\* String.prototype.length of such a text
StrLen(t) == IF t = <<>> THEN 0 ELSE BlockLength(Head(t)) + StrLen(Tail(t))

\* the values a caller sends to create: lengths 1, 10000, 0 and 10001
Values == { <<"a">>, <<"a", "x^9999">>, <<>>, <<"a", "x^10000">> }

\* the ids a caller sends to getOne: 0 stands for the empty string
Ids == {0, 1}

InitialPlan == [u \in Users |-> IF u = "u1" THEN "free" ELSE "pro"]
\* the points each user has consumed in the current window: u1 is one
\* generation away from the limit of the plan, u2 is two
InitialUsage ==
  [u \in Users |-> IF u = "u1" THEN FREE_POINTS - 1 ELSE PRO_POINTS - 2]

NewCall(proc, userId, value, id) ==
  [proc |-> proc, userId |-> userId, value |-> value, id |-> id,
   pc |-> "isAuthed", code |-> "", data |-> <<>>, createdProject |-> 0]

isAuthed_Open(userId) == TRUE

\* trpc/init isAuthed: next() is called only with a userId
isAuthed(userId) == userId /= NoUser

InputValid_OffByOne(proc, value, id) ==
  CASE proc = "create" ->
         StrLen(value) >= MinValueLength /\ StrLen(value) <= MaxValueLength + 1
    [] proc = "getOne" -> id >= 1
    [] OTHER -> TRUE

\* the zod input schema of a procedure
InputValid(proc, value, id) ==
  CASE proc = "create" ->
         StrLen(value) >= MinValueLength /\ StrLen(value) <= MaxValueLength
    [] proc = "getOne" -> id >= 1
    [] OTHER -> TRUE

\* the first await of a procedure's resolver
ResolverEntry(proc) ==
  CASE proc = "create" -> "consumeCredits"
    [] proc = "getOne" -> "findUnique"
    [] OTHER -> "findMany"

Finish(c, code, data) ==
  [calls EXCEPT ![c].pc = "done", ![c].code = code, ![c].data = data]

\* a request reaches the router: the call's middleware chain (isAuthed, then
\* the input parser) either ends the call or enters the resolver
Request ==
  /\ Len(calls) < MaxCalls
  /\ \E proc \in {"create", "getOne", "getMany"}, userId \in Users \cup {NoUser},
        value \in Values, id \in Ids :
       /\ proc /= "create" => value = <<>>
       /\ proc /= "getOne" => id = 0
       /\ LET call == NewCall(proc, userId, value, id)
          IN  calls' = Append(calls,
                IF ~isAuthed(userId)
                THEN [call EXCEPT !.pc = "done", !.code = "UNAUTHORIZED"]
                ELSE IF ~InputValid(proc, value, id)
                THEN [call EXCEPT !.pc = "done", !.code = "BAD_REQUEST"]
                ELSE [call EXCEPT !.pc = ResolverEntry(proc)])
  /\ UNCHANGED <<projects, messages, events, sandboxes, usage, plan>>
  /\ UNCHANGED <<requests, runVars>>

PointsOf_AllPro(userId) == PRO_POINTS

\* getUsageTracker: the points of the caller's plan
PointsOf(userId) == IF plan[userId] = "pro" THEN PRO_POINTS ELSE FREE_POINTS

\* create: consumeCredits throws an Error (no userId, or the store fails):
\* BAD_REQUEST
ConsumeCreditsFails(c) ==
  /\ calls[c].pc = "consumeCredits"
  /\ calls' = Finish(c, "BAD_REQUEST", <<>>)
  /\ UNCHANGED <<projects, messages, events, sandboxes, usage, plan>>
  /\ UNCHANGED <<requests, runVars>>

ConsumeCredits_OffByOne(c) ==
  /\ calls[c].pc = "consumeCredits"
  /\ calls[c].userId /= NoUser
  /\ LET userId == calls[c].userId
          consumedPoints == usage[userId] + GENERATION_COST
     IN  /\ usage' = [usage EXCEPT ![userId] = consumedPoints]
         /\ calls' =
              IF consumedPoints > PointsOf(userId) + 1
              THEN Finish(c, "TOO_MANY_REQUESTS", <<>>)
              ELSE [calls EXCEPT ![c].pc = "project.create"]
  /\ UNCHANGED <<projects, messages, events, sandboxes, plan>>
  /\ UNCHANGED <<requests, runVars>>

\* create: usageTracker.consume(userId, GENERATION_COST) adds the cost to the
\* consumed points and rejects once they exceed the plan's points
ConsumeCredits(c) ==
  /\ calls[c].pc = "consumeCredits"
  /\ calls[c].userId /= NoUser
  /\ LET userId == calls[c].userId
          consumedPoints == usage[userId] + GENERATION_COST
     IN  /\ usage' = [usage EXCEPT ![userId] = consumedPoints]
         /\ calls' =
              IF consumedPoints > PointsOf(userId)
              THEN Finish(c, "TOO_MANY_REQUESTS", <<>>)
              ELSE [calls EXCEPT ![c].pc = "project.create"]
  /\ UNCHANGED <<projects, messages, events, sandboxes, plan>>
  /\ UNCHANGED <<requests, runVars>>

\* create: prisma.project.create writes the project and its first message
ProjectCreate(c) ==
  /\ calls[c].pc = "project.create"
  /\ LET createdProject ==
           [id |-> Len(projects) + 1, userId |-> calls[c].userId]
     IN  /\ projects' = Append(projects, createdProject)
         /\ messages' =
              Append(messages, UserMessage(createdProject.id, calls[c].value))
         /\ calls' = [calls EXCEPT ![c].pc = "inngest.send",
                                   ![c].createdProject = createdProject.id]
  /\ UNCHANGED <<events, sandboxes, usage, plan>>
  /\ UNCHANGED <<requests, runVars>>

InngestSend_NoEvent(c) ==
  /\ calls[c].pc = "inngest.send"
  /\ calls' = Finish(c, "OK", <<projects[calls[c].createdProject]>>)
  /\ UNCHANGED <<projects, messages, events, sandboxes, usage, plan>>
  /\ UNCHANGED <<requests, runVars>>

\* create: inngest.send, then the created project is returned
InngestSend(c) ==
  /\ calls[c].pc = "inngest.send"
  /\ events' = Append(events, [projectId |-> calls[c].createdProject,
                               value |-> calls[c].value])
  /\ calls' = Finish(c, "OK", <<projects[calls[c].createdProject]>>)
  /\ UNCHANGED <<projects, messages, sandboxes, usage, plan>>
  /\ UNCHANGED <<requests, runVars>>

\* create: the database or the event API fails and the call ends with the
\* error; what the call has done so far stays
CreateCallFails(c) ==
  /\ calls[c].pc \in {"project.create", "inngest.send"}
  /\ calls' = Finish(c, "INTERNAL_SERVER_ERROR", <<>>)
  /\ UNCHANGED <<projects, messages, events, sandboxes, usage, plan>>
  /\ UNCHANGED <<requests, runVars>>

GetOne_AnyOwner(c) ==
  /\ calls[c].pc = "findUnique"
  /\ LET existingProject ==
           SelectSeq(projects, LAMBDA p : p.id = calls[c].id)
     IN  calls' = IF existingProject = <<>>
                  THEN Finish(c, "NOT_FOUND", <<>>)
                  ELSE Finish(c, "OK", existingProject)
  /\ UNCHANGED <<projects, messages, events, sandboxes, usage, plan>>
  /\ UNCHANGED <<requests, runVars>>

\* getOne: findUnique where id and userId
GetOne(c) ==
  /\ calls[c].pc = "findUnique"
  /\ LET existingProject ==
           SelectSeq(projects, LAMBDA p : p.id = calls[c].id
                                          /\ p.userId = calls[c].userId)
     IN  calls' = IF existingProject = <<>>
                  THEN Finish(c, "NOT_FOUND", <<>>)
                  ELSE Finish(c, "OK", existingProject)
  /\ UNCHANGED <<projects, messages, events, sandboxes, usage, plan>>
  /\ UNCHANGED <<requests, runVars>>

\* updatedAt of a Project row: no code updates a row, so it is the time of
\* creation, which the ids of the model follow
updatedAt(p) == p.id

GetMany_Desc(c) ==
  /\ calls[c].pc = "findMany"
  /\ calls' = Finish(c, "OK",
                Reverse(SelectSeq(projects,
                                  LAMBDA p : p.userId = calls[c].userId)))
  /\ UNCHANGED <<projects, messages, events, sandboxes, usage, plan>>
  /\ UNCHANGED <<requests, runVars>>

\* getMany: findMany where userId, orderBy updatedAt asc; no row is ever
\* updated, so that is the order of creation
GetMany(c) ==
  /\ calls[c].pc = "findMany"
  /\ calls' = Finish(c, "OK",
                SelectSeq(projects, LAMBDA p : p.userId = calls[c].userId))
  /\ UNCHANGED <<projects, messages, events, sandboxes, usage, plan>>
  /\ UNCHANGED <<requests, runVars>>

ApiInit ==
  /\ projects = <<>>
  /\ messages = <<>>
  /\ events = <<>>
  /\ sandboxes = <<>>
  /\ pc = "idle"
  /\ event = NoEvent
  /\ retried = FALSE
  /\ sandboxId = 0
  /\ previousMessages = <<>>
  /\ summary = EmptyText
  /\ files = EmptyFiles
  /\ agentCalls = 0
  /\ routed = ""
  /\ result = <<>>
  /\ pending = <<>>
  /\ toolResult = NoToolResult
  /\ fragmentTitleOutput = <<>>
  /\ responseOutput = <<>>
  /\ isError = FALSE
  /\ sandboxUrl = NoUrl
  /\ calls = <<>>
  /\ usage = InitialUsage
  /\ plan = InitialPlan
  /\ requests = <<>>

ApiNext ==
  \/ Request
  \/ \E c \in 1..Len(calls) : ConsumeCreditsFails(c)
  \/ \E c \in 1..Len(calls) : ConsumeCredits(c)
  \/ \E c \in 1..Len(calls) : ProjectCreate(c)
  \/ \E c \in 1..Len(calls) : InngestSend(c)
  \/ \E c \in 1..Len(calls) : CreateCallFails(c)
  \/ \E c \in 1..Len(calls) : GetOne(c)
  \/ \E c \in 1..Len(calls) : GetMany(c)

ApiSpec == ApiInit /\ [][ApiNext]_vars

----------------------------------------------------------------------------
(* The job runner with events delivered *)

Init ==
  /\ projects = [i \in 1..MaxEvents |-> [id |-> i, userId |-> UserOf(i)]]
  /\ messages = [i \in 1..MaxEvents |-> UserMessage(i, PromptOf(i))]
  /\ events = [i \in 1..MaxEvents |-> [projectId |-> i, value |-> PromptOf(i)]]
  /\ sandboxes = <<>>
  /\ pc = "idle"
  /\ event = NoEvent
  /\ retried = FALSE
  /\ sandboxId = 0
  /\ previousMessages = <<>>
  /\ summary = EmptyText
  /\ files = EmptyFiles
  /\ agentCalls = 0
  /\ routed = ""
  /\ result = <<>>
  /\ pending = <<>>
  /\ toolResult = NoToolResult
  /\ fragmentTitleOutput = <<>>
  /\ responseOutput = <<>>
  /\ isError = FALSE
  /\ sandboxUrl = NoUrl
  /\ calls = <<>>
  /\ usage = InitialUsage
  /\ plan = InitialPlan
  /\ requests = <<>>

Next ==
  \/ StartRun
  \/ StepThrows
  \/ GetSandboxId
  \/ GetPreviousMessages
  \/ Route
  \/ CodeAgentInfer
  \/ OnResponse
  \/ TerminalTool
  \/ CreateOrUpdateFilesTool
  \/ ReadFilesTool
  \/ RunFragmentTitleGenerator
  \/ RunResponseGenerator
  \/ GetSandboxUrl
  \/ SaveResult
  \/ SaveResultAttemptFails
  \/ TimePasses
  \/ ReturnResult

Spec == Init /\ [][Next]_vars

\* every step of a run but a failing attempt
Progress ==
  \/ StartRun
  \/ GetSandboxId
  \/ GetPreviousMessages
  \/ Route
  \/ CodeAgentInfer
  \/ OnResponse
  \/ TerminalTool
  \/ CreateOrUpdateFilesTool
  \/ ReadFilesTool
  \/ RunFragmentTitleGenerator
  \/ RunResponseGenerator
  \/ GetSandboxUrl
  \/ SaveResult
  \/ ReturnResult

\* the runner retries a step that threw until it succeeds: a step that can
\* succeed is not retried forever
LiveSpec == Init /\ [][Next]_vars /\ WF_vars(Progress)

----------------------------------------------------------------------------
(* The first steps of a run on a project that has a conversation *)

MaxHistory == 7

\* the i-th row of table Message: its content tells its place
HistoryRow(projectId, role, i) ==
  [projectId |-> projectId, content |-> PromptOf(i), role |-> role,
   type |-> "RESULT", fragment |-> {}]

\* tables Message, in createdAt order: the conversation of project 1 and
\* prompts of project 2 among it
Histories ==
  UNION { { [i \in 1..n |-> HistoryRow(pr[i][1], pr[i][2], i)] :
              pr \in [1..n -> {<<1, "USER">>, <<1, "ASSISTANT">>,
                                <<2, "USER">>}] } :
          n \in 0..MaxHistory }

HistoryInit ==
  /\ projects = [i \in 1..2 |-> [id |-> i, userId |-> UserOf(i)]]
  /\ messages \in Histories
  /\ events = <<[projectId |-> 1, value |-> PromptOf(1)]>>
  /\ sandboxes = <<>>
  /\ pc = "idle"
  /\ event = NoEvent
  /\ retried = FALSE
  /\ sandboxId = 0
  /\ previousMessages = <<>>
  /\ summary = EmptyText
  /\ files = EmptyFiles
  /\ agentCalls = 0
  /\ routed = ""
  /\ result = <<>>
  /\ pending = <<>>
  /\ toolResult = NoToolResult
  /\ fragmentTitleOutput = <<>>
  /\ responseOutput = <<>>
  /\ isError = FALSE
  /\ sandboxUrl = NoUrl
  /\ calls = <<>>
  /\ usage = InitialUsage
  /\ plan = InitialPlan
  /\ requests = <<>>

HistoryNext ==
  \/ StartRun
  \/ StepThrows
  \/ GetSandboxId
  \/ GetPreviousMessages

HistorySpec == HistoryInit /\ [][HistoryNext]_vars

----------------------------------------------------------------------------
(* The middleware in front of every route *)

MaxRequests == 2

\* request paths, as their segments: "/" is <<>>
Routes ==
  { <<>>, <<"sign-in">>, <<"pricing">>, <<"projects", "1">>,
    <<"api", "trpc", "projects.getMany">>, <<"api", "inngest">> }

\* createRouteMatcher(["/", "/sign-in(.*)", "/sign-up(.*)", "/api(.*)",
\* "/pricing(.*)"])
isPublicRoute(path) ==
  \/ path = <<>>
  \/ path /= <<>> /\ Head(path) \in {"sign-in", "sign-up", "api", "pricing"}

\* the callback of clerkMiddleware: auth.protect is invoked on the routes that
\* are not public, and lets only a signed-in caller through to the handler
clerkMiddleware(path, userId) ==
  LET protect == ~isPublicRoute(path)
  IN  [path |-> path, userId |-> userId, protect |-> protect,
       handler |-> ~protect \/ userId /= NoUser]

\* one HTTP request passes the middleware
HttpRequest ==
  /\ Len(requests) < MaxRequests
  /\ \E path \in Routes, userId \in Users \cup {NoUser} :
       requests' = Append(requests, clerkMiddleware(path, userId))
  /\ UNCHANGED <<projects, messages, events, sandboxes, calls, usage, plan>>
  /\ UNCHANGED runVars

MiddlewareNext == HttpRequest

MiddlewareSpec == ApiInit /\ [][MiddlewareNext]_vars

----------------------------------------------------------------------------
(* Claims about the code-agent job *)

LastMessage == messages[Len(messages)]

NoFiles(f) == \A p \in Paths : f[p] = NoFile

\* save-result has just written a row for the run's project
SaveResultWrote == pc = "save-result" /\ messages' /= messages

\* C1: in save-result, when the final state has an empty summary or an empty
\* files map, the row written for the event's project is the ASSISTANT ERROR
\* message with the fixed content and no fragment, and no RESULT row is written
C1_ErrorMessageWhenNoSummaryOrNoFiles ==
  [][ (SaveResultWrote /\ (summary = EmptyText \/ NoFiles(files)))
      => messages' = Append(messages,
           [projectId |-> event.projectId,
            content |-> <<"Something went wrong. Please try again.">>,
            role |-> "ASSISTANT", type |-> "ERROR", fragment |-> {}]) ]_vars

\* a run with a summary and no file has saved its ERROR message
C1_Witness ==
  /\ pc = "done"
  /\ summary /= EmptyText
  /\ NoFiles(files)
  /\ LastMessage.type = "ERROR"
  /\ LastMessage.projectId = event.projectId

\* C2: in save-result, when the final state has a summary and a file, the one
\* row written is an ASSISTANT RESULT message for the event's project with one
\* fragment, whose files are the state's files and whose sandboxUrl is the
\* https URL of port 3000 of the sandbox created for this run
C2_ResultMessageWithFragment ==
  [][ (SaveResultWrote /\ summary /= EmptyText /\ ~NoFiles(files))
      => /\ Len(messages') = Len(messages) + 1
         /\ SubSeq(messages', 1, Len(messages)) = messages
         /\ LET m == messages'[Len(messages')]
            IN  /\ m.projectId = event.projectId
                /\ m.role = "ASSISTANT"
                /\ m.type = "RESULT"
                /\ Cardinality(m.fragment) = 1
                /\ \A f \in m.fragment :
                     /\ f.files = files
                     /\ f.sandboxUrl.scheme = "https"
                     /\ f.sandboxUrl.port = 3000
                     /\ f.sandboxUrl.sandboxId \in 1..Len(sandboxes)
                     /\ sandboxes[f.sandboxUrl.sandboxId].forProject
                          = event.projectId ]_vars

\* the second run has saved a RESULT message with both files
C2_Witness ==
  /\ pc = "done"
  /\ event.projectId = 2
  /\ summary /= EmptyText
  /\ LastMessage.type = "RESULT"
  /\ \E f \in LastMessage.fragment :
       f.files = files /\ \A p \in Paths : f.files[p] /= NoFile

HasAssistantMessage(projectId) ==
  \E i \in 1..Len(messages) :
    messages[i].projectId = projectId /\ messages[i].role = "ASSISTANT"

\* C3: every delivered code-agent/run event eventually leads to a persisted
\* assistant message (RESULT or ERROR) for its project, when the runner retries
\* failed steps fairly
C3_EveryEventLeadsToAMessage ==
  \A i \in 1..MaxEvents : <>HasAssistantMessage(i)

InLoop == pc \in {"route", "code-agent", "onResponse", "tools"}

\* C4: the agent loop of a run terminates, and the coding agent is invoked at
\* most maxIter = 15 times in a run
C4_LoopBoundedByMaxIter ==
  /\ [](agentCalls <= 15)
  /\ [](InLoop => <>(~InLoop))

\* the loop has ended after 15 invocations without a summary
C4_Witness ==
  /\ pc = "fragment-title-generator"
  /\ agentCalls = 15
  /\ summary = EmptyText

\* C5: at every routing decision the router returns the coding agent exactly
\* when the summary is empty and no agent exactly when it is not; once the
\* summary is non-empty the coding agent is not invoked again and no tool call
\* runs in that run
C5_RouterHaltsOnSummary ==
  [][ /\ (pc = "route" /\ pc' /= "route")
         => /\ (routed' = "code-agent" <=> summary = EmptyText)
            /\ (routed' = "none" <=> summary /= EmptyText)
      /\ summary' /= EmptyText
         => pc' \notin {"code-agent", "onResponse", "tools"}
      /\ (summary /= EmptyText /\ pc /= "done")
         => /\ agentCalls' = agentCalls
            /\ toolResult' = NoToolResult
            /\ Len(sandboxes') = Len(sandboxes)
            /\ \A i \in 1..Len(sandboxes) :
                 sandboxes'[i].written = sandboxes[i].written ]_vars

\* the router has halted a run on its summary before maxIter
C5_Witness ==
  /\ pc = "fragment-title-generator"
  /\ routed = "none"
  /\ summary /= EmptyText
  /\ agentCalls < 15

\* the text of the last message with role assistant of an output, if it has one
C6_LastAssistantTexts(output) ==
  LET assistants == {i \in 1..Len(output) : output[i].role = "assistant"}
  IN  IF assistants = {} THEN {}
      ELSE LET last == output[CHOOSE i \in assistants :
                                \A j \in assistants : j <= i]
           IN  IF ~last.hasContent THEN {}
               ELSE IF last.isArray THEN {Join(last.parts)}
               ELSE {last.parts[1]}

\* C6: onResponse sets the summary to the text of the response's last assistant
\* message exactly when that text contains "<task_summary>" and leaves it
\* unchanged otherwise; a non-empty summary contains the marker
C6_SummaryOnlyFromMarker ==
  [][ /\ pc = "onResponse"
         => LET marked == {t \in C6_LastAssistantTexts(result) :
                             Includes(t, <<"<task_", "summary>">>)}
            IN  /\ \A t \in marked : summary' = t
                /\ marked = {} => summary' = summary
      /\ pc /= "onResponse" => (summary' = summary \/ summary' = EmptyText)
      /\ summary' /= EmptyText => Includes(summary', <<"<task_", "summary>">>)
    ]_vars

\* onResponse has taken the summary from an array content whose parts carry
\* the marker between them
C6_Witness ==
  /\ pc = "route"
  /\ Len(result) = 1
  /\ result[1].isArray
  /\ summary = <<"<task_", "summary>">>

\* C7: the title and response agents are called only in runs whose summary is
\* non-empty when the loop has ended, each once, after the loop and before
\* save-result
C7_AuxCallsOnlyAfterCompletion ==
  [][ /\ fragmentTitleOutput' /= fragmentTitleOutput /\ pc /= "done"
         => (pc = "fragment-title-generator" /\ summary /= EmptyText)
      /\ responseOutput' /= responseOutput /\ pc /= "done"
         => (pc = "response-generator" /\ summary /= EmptyText)
      /\ pc' = "save-result"
         => pc \in {"get-sandbox-url", "save-result"} ]_vars

\* the content of the last write to path p among the files of a call, if any
C8_LastWrite(fs, p) ==
  LET hits == {i \in 1..Len(fs) : fs[i].path = p}
  IN  IF hits = {} THEN {}
      ELSE {fs[CHOOSE i \in hits : \A j \in hits : j <= i].content}

----------------------------------------------------------------------------
(* Claims about the tRPC procedures *)

CreateReturned(c) == calls[c].proc = "create" /\ calls[c].code = "OK"

\* the call has been through usageTracker.consume
C9_HasConsumed(c) ==
  /\ calls[c].proc = "create"
  /\ \/ calls[c].pc \in {"project.create", "inngest.send"}
     \/ calls[c].code \in {"OK", "TOO_MANY_REQUESTS", "INTERNAL_SERVER_ERROR"}

\* C9: when projects.create returns a project to an authenticated caller,
\* there is exactly one project row of that id, owned by the caller, exactly
\* one message in it (USER, RESULT, the prompt), exactly one code-agent/run
\* event with that id and the prompt, and the call has consumed one credit
C9_CreateProducesProjectMessageEvent ==
  /\ \A c \in 1..Len(calls) :
       CreateReturned(c)
       => /\ Len(calls[c].data) = 1
          /\ LET id == calls[c].data[1].id
             IN  /\ calls[c].data[1].userId = calls[c].userId
                 /\ calls[c].userId \in Users
                 /\ StrLen(calls[c].value) \in 1..10000
                 /\ Cardinality({i \in 1..Len(projects) : projects[i].id = id}) = 1
                 /\ \A i \in 1..Len(projects) :
                      projects[i].id = id => projects[i].userId = calls[c].userId
                 /\ Cardinality({i \in 1..Len(messages) :
                                   messages[i].projectId = id}) = 1
                 /\ \A i \in 1..Len(messages) :
                      messages[i].projectId = id
                      => /\ messages[i].role = "USER"
                         /\ messages[i].type = "RESULT"
                         /\ messages[i].content = calls[c].value
                 /\ Cardinality({i \in 1..Len(events) :
                                   events[i].projectId = id}) = 1
                 /\ \A i \in 1..Len(events) :
                      events[i].projectId = id
                      => events[i].value = calls[c].value
                 /\ \A d \in 1..Len(calls) :
                      (CreateReturned(d) /\ d /= c) => calls[d].data[1].id /= id
  /\ \A u \in Users :
       usage[u] = InitialUsage[u]
                  + Cardinality({c \in 1..Len(calls) :
                                   calls[c].userId = u /\ C9_HasConsumed(c)})

\* create has returned a project to u2 for a prompt of 10000 characters
C9_Witness ==
  \E c \in 1..Len(calls) :
    /\ CreateReturned(c)
    /\ calls[c].userId = "u2"
    /\ StrLen(calls[c].value) = 10000
    /\ usage["u2"] = InitialUsage["u2"] + 1

\* C10: a call of getOne, getMany or create without a userId fails with
\* UNAUTHORIZED and its body never runs: it returns no data, and the step that
\* handles it leaves the projects, the messages, the events and the usage as
\* they were
C10_UnauthorizedWithoutUserId ==
  [][ \A c \in 1..Len(calls') :
        calls'[c].userId = ""
        => /\ calls'[c].pc = "done"
           /\ calls'[c].code = "UNAUTHORIZED"
           /\ calls'[c].data = <<>>
           /\ calls'[c].createdProject = 0
           /\ c > Len(calls)
              => UNCHANGED <<projects, messages, events, usage>>
           /\ c <= Len(calls) => calls'[c] = calls[c] ]_vars

\* the three procedures have each refused a caller without a userId
C10_Witness ==
  \A proc \in {"create", "getOne", "getMany"} :
    \E c \in 1..Len(calls) :
      /\ calls[c].proc = proc
      /\ calls[c].userId = ""
      /\ calls[c].code = "UNAUTHORIZED"
      /\ proc = "create" => StrLen(calls[c].value) = 1

\* the create calls that have created a project row
C11_CallsWithProject == {c \in 1..Len(calls) : calls[c].createdProject /= 0}

\* C11: when the caller's consumed points have reached the points of the plan,
\* the consume of a create call ends the call with TOO_MANY_REQUESTS, and that
\* step creates no project, no message and no event; a call that ended so has
\* created no project, and every project, first message and event in the
\* tables belongs to a call that went past the consume
C11_OutOfCreditsCreatesNothing ==
  /\ [][ \A c \in 1..Len(calls) :
          ( /\ calls[c].pc = "consumeCredits"
            /\ usage[calls[c].userId] >= PointsOf(calls[c].userId)
            /\ usage' /= usage
            /\ calls'[c] /= calls[c] )
          => /\ calls'[c].pc = "done"
             /\ calls'[c].code = "TOO_MANY_REQUESTS"
             /\ calls'[c].data = <<>>
             /\ UNCHANGED <<projects, messages, events>> ]_vars
  /\ [](\A c \in 1..Len(calls) :
          calls[c].code = "TOO_MANY_REQUESTS"
          => /\ calls[c].proc = "create"
             /\ calls[c].pc = "done"
             /\ calls[c].createdProject = 0)
  /\ [](/\ Len(projects) = Cardinality(C11_CallsWithProject)
        /\ Len(messages) = Cardinality(C11_CallsWithProject)
        /\ Len(events) <= Cardinality(C11_CallsWithProject))

\* u1, out of credits, was refused while another call of u1 had its project
C11_Witness ==
  \E c, d \in 1..Len(calls) :
    /\ calls[c].userId = "u1"
    /\ calls[c].code = "TOO_MANY_REQUESTS"
    /\ calls[d].userId = "u1"
    /\ calls[d].createdProject /= 0
    /\ Len(projects) = 1

\* the create calls of u that went past the consume: the generations u started
C12_Started(u) ==
  {c \in 1..Len(calls) :
     /\ calls[c].proc = "create"
     /\ calls[c].userId = u
     /\ \/ calls[c].pc \in {"project.create", "inngest.send"}
        \/ calls[c].pc = "done" /\ calls[c].code \in {"OK", "INTERNAL_SERVER_ERROR"}}

C13_Owned(id, userId) ==
  {i \in 1..Len(projects) : projects[i].id = id /\ projects[i].userId = userId}

\* C13: the query of getOne returns the project of the given id when the
\* caller owns it, and fails with NOT_FOUND and no data for every other id,
\* absent or owned by another user; no call, of any procedure, ever holds a
\* project of another user
C13_GetOneOnlyOwnProject ==
  /\ [][ \A c \in 1..Len(calls) :
          (calls[c].pc = "findUnique" /\ calls'[c].pc = "done")
          => IF C13_Owned(calls[c].id, calls[c].userId) /= {}
             THEN /\ calls'[c].code = "OK"
                  /\ Len(calls'[c].data) = 1
                  /\ calls'[c].data[1].id = calls[c].id
                  /\ calls'[c].data[1].userId = calls[c].userId
             ELSE /\ calls'[c].code = "NOT_FOUND"
                  /\ calls'[c].data = <<>> ]_vars
  /\ [](\A c \in 1..Len(calls) :
          \A i \in 1..Len(calls[c].data) :
            calls[c].data[i].userId = calls[c].userId)

\* project 1 is u1's: getOne gave it to u1 and answered NOT_FOUND to u2
C13_Witness ==
  \E c, d \in 1..Len(calls) :
    /\ Len(projects) >= 1 /\ projects[1].userId = "u1"
    /\ calls[c].proc = "getOne" /\ calls[c].userId = "u1" /\ calls[c].id = 1
    /\ calls[c].code = "OK"
    /\ calls[d].proc = "getOne" /\ calls[d].userId = "u2" /\ calls[d].id = 1
    /\ calls[d].code = "NOT_FOUND"

\* C14: the query of getMany returns every project of the caller, each once,
\* and no project of anyone else, the least updatedAt first
C14_GetManyOwnProjectsOldestFirst ==
  [][ \A c \in 1..Len(calls) :
        (calls[c].pc = "findMany" /\ calls'[c].pc = "done")
        => LET data == calls'[c].data
               mine == {i \in 1..Len(projects) :
                          projects[i].userId = calls[c].userId}
           IN  /\ calls'[c].code = "OK"
               /\ {data[i] : i \in 1..Len(data)} = {projects[i] : i \in mine}
               /\ Len(data) = Cardinality(mine)
               /\ \A i, j \in 1..Len(data) :
                    i < j => updatedAt(data[i]) < updatedAt(data[j]) ]_vars

\* getMany has returned the two projects of u2
C14_Witness ==
  \E c \in 1..Len(calls) :
    /\ calls[c].proc = "getMany" /\ calls[c].userId = "u2"
    /\ calls[c].code = "OK"
    /\ Len(calls[c].data) = 2

\* C15: for every request to a route under /api made without a session, the
\* middleware invokes auth.protect and the request does not reach the handler
C15_ApiRoutesProtectedByMiddleware ==
  \A i \in 1..Len(requests) :
    ( /\ requests[i].path /= <<>>
      /\ Head(requests[i].path) = "api"
      /\ requests[i].userId = "" )
    => requests[i].protect /\ ~requests[i].handler

\* the rows of the run's project, oldest first
C16_Mine == SelectSeq(messages, LAMBDA m : m.projectId = event.projectId)

\* C16: what get-previous-messages returned is, for the n messages of the
\* event's project, the min(5, n) latest ones, oldest first, each a text
\* message with the stored content and role "assistant" for ASSISTANT and
\* "user" otherwise
C16_PreviousMessagesLastFiveOldestFirst ==
  pc = "route"
  => LET n == Len(C16_Mine)
         k == IF n < 5 THEN n ELSE 5
     IN  /\ Len(previousMessages) = k
         /\ \A j \in 1..k :
              LET row == C16_Mine[n - k + j]
                  m == previousMessages[j]
              IN  /\ m.type = "text"
                  /\ m.role = (IF row.role = "ASSISTANT" THEN "assistant"
                                                         ELSE "user")
                  /\ ~m.isArray
                  /\ ContentString(m) = row.content

\* the step has returned the last five of the six messages of the project,
\* of both roles, and a message of the other project lies between them
C16_Witness ==
  /\ pc = "route"
  /\ Len(C16_Mine) = 6
  /\ Len(messages) = 7
  /\ messages[4].projectId = 2
  /\ Len(previousMessages) = 5
  /\ \E i, j \in 1..5 : /\ previousMessages[i].role = "user"
                        /\ previousMessages[j].role = "assistant"

\* the string the claim gives for a message array
C17_Expected(value) ==
  IF Len(value) = 0 THEN <<"Fragment">>
  ELSE IF value[1].type /= "text" THEN <<"Fragment">>
  ELSE IF value[1].isArray THEN Join(value[1].parts)
  ELSE ContentString(value[1])

\* C17: for each of the two outputs save-result parses, parseAgentOutput
\* returns a string and throws nothing: the content of the first message when
\* it is a text message, and "Fragment" when it is not or the array is empty
C17_ParseAgentOutputAlwaysString ==
  pc = "save-result"
  => \A value \in {responseOutput, fragmentTitleOutput} :
       /\ ~parseAgentOutput(value).threw
       /\ parseAgentOutput(value).val = C17_Expected(value)

\* the assistant messages of an output that have a content
C18_WithContent(output) ==
  {i \in 1..Len(output) :
     output[i].role = "assistant" /\ ContentTruthy(output[i])}

\* C18: on the output of each inference, lastAgentTextMessageContent is
\* undefined exactly when no assistant message of the output has a content,
\* and is otherwise the content of the last message with role assistant, a
\* string as it is and an array joined
C18_LastAssistantTextOrUndefined ==
  pc = "onResponse"
  => LET r == lastAgentTextMessageContent(result)
         last == result[FindLastIndexAssistant(result)]
     IN  /\ r.def <=> C18_WithContent(result) /= {}
         /\ r.def => r.val = (IF last.isArray THEN Join(last.parts)
                                              ELSE ContentString(last))

\* the ASSISTANT rows of a project
C19_AssistantRows(projectId) ==
  {i \in 1..Len(messages) :
     messages[i].projectId = projectId /\ messages[i].role = "ASSISTANT"}

\* C19: each project here has one event and so one run; the run persists at
\* most one assistant message for it, whatever attempts of save-result the
\* runner makes
C19_AtMostOneMessagePerRun ==
  \A i \in 1..MaxEvents : Cardinality(C19_AssistantRows(i)) <= 1

\* the loop of network.run has ended: the router halted or the counter is used up
C20_LoopEnded == pending = <<>> /\ (summary /= EmptyText \/ agentCalls = 15)

\* C20: the steps of a run come in one order. A tool call runs only with the
\* sandbox id of get-sandbox-id; the agent is invoked only with the history of
\* get-previous-messages; the title and response calls, get-sandbox-url and
\* save-result come only after the loop has ended; save-result runs with the
\* preview URL known; a message is written by save-result only, and after it
\* the run changes no table
C20_StepsInFixedOrder ==
  /\ [](pc \in {"code-agent", "onResponse", "tools"}
        => /\ sandboxId \in 1..Len(sandboxes)
           /\ sandboxes[sandboxId].forProject = event.projectId
           /\ previousMessages /= <<>>)
  /\ [](pc \in {"fragment-title-generator", "response-generator",
                "get-sandbox-url", "save-result", "done"}
        => C20_LoopEnded)
  /\ [](pc \in {"save-result", "done"}
        => /\ sandboxUrl.scheme = "https"
           /\ sandboxUrl.sandboxId = sandboxId)
  /\ [][ /\ messages' /= messages => pc = "save-result"
         /\ (pc /= "idle" /\ C19_AssistantRows(event.projectId) /= {})
            => pc \in {"save-result", "done"}
         /\ pc = "done" => UNCHANGED <<projects, messages, events, sandboxes>>
       ]_vars

\* a run that wrote a file in its sandbox, over two invocations of the
\* agent, has saved its message
C20_Witness ==
  /\ pc = "done"
  /\ agentCalls >= 2
  /\ sandboxes[sandboxId].written /= EmptyFiles
  /\ C19_AssistantRows(event.projectId) /= {}

----------------------------------------------------------------------------
(* Claims about the tools *)

\* a createOrUpdateFiles call has just returned its "Error: ..." string
C21_CallFailed ==
  /\ pc = "tools"
  /\ Head(pending).name = "createOrUpdateFiles"
  /\ toolResult'.error

\* what an object holds at path p once the first k files of fs were set in it
C21_AfterFirst(obj, fs, k, p) ==
  LET hits == {i \in 1..k : fs[i].path = p}
  IN  IF hits = {} THEN obj[p]
      ELSE fs[CHOOSE i \in hits : \A j \in hits : j <= i].content

C22_BadPrompt(call) ==
  /\ call.proc = "create"
  /\ (StrLen(call.value) = 0 \/ StrLen(call.value) > 10000)

\* C22: a create call with a prompt of length 0 or above 10000 is rejected by
\* the input parser before the resolver runs: it ends at once, with
\* BAD_REQUEST for a signed-in caller, never reaches consumeCredits or a later
\* step, and the step that handles it leaves the usage, the projects, the
\* messages and the events as they were
C22_InvalidPromptRejectedBeforeCredits ==
  /\ [][ \A c \in 1..Len(calls') :
          (c > Len(calls) /\ C22_BadPrompt(calls'[c]))
          => /\ calls'[c].pc = "done"
             /\ calls'[c].code = (IF calls'[c].userId = "" THEN "UNAUTHORIZED"
                                                          ELSE "BAD_REQUEST")
             /\ UNCHANGED <<usage, projects, messages, events>> ]_vars
  /\ [](\A c \in 1..Len(calls) :
          C22_BadPrompt(calls[c])
          => /\ calls[c].pc = "done"
             /\ calls[c].code \in {"BAD_REQUEST", "UNAUTHORIZED"}
             /\ calls[c].data = <<>>
             /\ calls[c].createdProject = 0)

\* u1 has sent an empty prompt and one of 10001 characters: both were
\* rejected and u1 has the points of before
C22_Witness ==
  \E c, d \in 1..Len(calls) :
    /\ calls[c].proc = "create" /\ calls[c].userId = "u1"
    /\ StrLen(calls[c].value) = 0 /\ calls[c].code = "BAD_REQUEST"
    /\ calls[d].proc = "create" /\ calls[d].userId = "u1"
    /\ StrLen(calls[d].value) = 10001 /\ calls[d].code = "BAD_REQUEST"
    /\ usage["u1"] = InitialUsage["u1"]
    /\ projects = <<>> /\ events = <<>>

\* a tool call has connected to the sandbox and performed its operation, or
\* at least a write
C23_ToolOperated ==
  /\ pc = "tools"
  /\ \/ ~toolResult'.error
     \/ sandboxes'[sandboxId].written /= sandboxes[sandboxId].written

\* C23: through a run the sandbox id is the one get-sandbox-id returned; the
\* tool calls and the preview-URL lookup touch that sandbox and no other; each
\* of them that performs its operation has first set the timeout of the
\* sandbox anew; and the sandboxUrl of a saved fragment is that of the sandbox
\* of the run's project, in which the fragment's files were written
C23_OneSandboxPerRun ==
  /\ [][ /\ sandboxId /= 0 => sandboxId' \in {sandboxId, 0}
         /\ pc \in {"tools", "get-sandbox-url"}
            => /\ Len(sandboxes') = Len(sandboxes)
               /\ \A i \in 1..Len(sandboxes) :
                    i /= sandboxId => sandboxes'[i] = sandboxes[i]
         /\ C23_ToolOperated
            => sandboxes'[sandboxId].timeout = "SANDBOX_TIMEOUT"
         /\ (pc = "get-sandbox-url" /\ pc' = "save-result")
            => /\ sandboxes'[sandboxId].timeout = "SANDBOX_TIMEOUT"
               /\ sandboxUrl'.sandboxId = sandboxId ]_vars
  /\ [](\A i \in 1..Len(messages) : \A f \in messages[i].fragment :
          /\ f.sandboxUrl.sandboxId \in 1..Len(sandboxes)
          /\ sandboxes[f.sandboxUrl.sandboxId].forProject
               = messages[i].projectId
          /\ \A p \in Paths :
               f.files[p] = sandboxes[f.sandboxUrl.sandboxId].written[p])

\* the second run, in the second sandbox, has saved a fragment with its
\* file; the first run's sandbox has no file
C23_Witness ==
  /\ pc = "done"
  /\ sandboxId = 2
  /\ sandboxes[1].written = EmptyFiles
  /\ sandboxes[2].timeout = "SANDBOX_TIMEOUT"
  /\ sandboxes[2].written /= EmptyFiles
  /\ \E f \in LastMessage.fragment : f.sandboxUrl.sandboxId = 2

\* the run is at a call of that tool
C24_AtTool(name) == pc = "tools" /\ Head(pending).name = name

\* t begins with the atoms of p
C24_StartsWith(t, p) == Len(t) >= Len(p) /\ SubSeq(t, 1, Len(p)) = p

\* C24: every step of a terminal call returns a string to the loop and takes
\* the run to the next routing decision (or to the next tool call of the same
\* output), no attempt being retried: the command's stdout when it succeeded,
\* and otherwise "Command failed", the error, and the stdout and the stderr
\* collected before the failure
C24_TerminalNeverRaises ==
  [][ C24_AtTool("terminal")
      => /\ pending' = Tail(pending)
         /\ pc' = (IF Tail(pending) = <<>> THEN "route" ELSE "tools")
         /\ retried' = retried
         /\ toolResult'.tool = "terminal"
         /\ IF toolResult'.error
            THEN \E j \in 0..2, stderr \in {<<>>, <<"npm ERR!">>} :
                   \E error \in {"Error: sandbox not found",
                                  "CommandExitError: exit status 1"} :
                     toolResult'.value
                       = <<"Command failed ", error, "\nstdout: ">>
                         \o SubSeq(<<"added 1 package", " in 2s">>, 1, j)
                         \o <<"\nstderr: ">> \o stderr
            ELSE toolResult'.value = <<"added 1 package", " in 2s">> ]_vars

\* a command has failed after its first chunk of stdout and some stderr, and
\* the run is at the next routing decision
C24_Witness ==
  /\ pc = "route"
  /\ toolResult.tool = "terminal"
  /\ toolResult.error
  /\ toolResult.value = <<"Command failed ", "CommandExitError: exit status 1",
                          "\nstdout: ", "added 1 package", "\nstderr: ",
                          "npm ERR!">>

\* what a read of path p in the run's sandbox gives
C25_Content(p) ==
  IF sandboxes[sandboxId].written[p] = NoFile THEN "template"
  ELSE sandboxes[sandboxId].written[p]

\* C25: a readFiles or terminal call leaves the files map and the summary of
\* the state as they were; readFiles returns either the JSON list with the
\* path and the content of every requested path, in the order of the request,
\* or, when the connection or a read failed, the "Error: ..." string alone
C25_ReadOnlyToolsAndAllOrNothing ==
  [][ /\ (C24_AtTool("terminal") \/ C24_AtTool("readFiles"))
         => UNCHANGED <<files, summary>>
      /\ C24_AtTool("readFiles")
         => LET paths == Head(pending).paths
                value == toolResult'.value
            IN  IF toolResult'.error
                THEN /\ Len(value) = 2
                     /\ value[1] = "Error: "
                     /\ value[2] \in {"Error: sandbox not found",
                                       "Error: file operation failed"}
                ELSE /\ Len(value) = 5 * Len(paths) + 2
                     /\ value[1] = "[" /\ value[Len(value)] = "]"
                     /\ \A i \in 1..Len(paths) :
                          /\ value[5 * i - 2] = paths[i]
                          /\ value[5 * i] = C25_Content(paths[i]) ]_vars

\* readFiles has returned the contents of the two files, one as the run wrote
\* it and one of the template, and the map of the state has the one file
C25_Witness ==
  /\ toolResult.tool = "readFiles"
  /\ ~toolResult.error
  /\ toolResult.value[3] = "app/page.tsx" /\ toolResult.value[5] = "v1"
  /\ toolResult.value[8] = "app/layout.tsx" /\ toolResult.value[10] = "template"
  /\ files["app/page.tsx"] = "v1" /\ files["app/layout.tsx"] = NoFile
====
